---- MODULE Spec2Model ----
(***************************************************************************)
(* AgentDesk consistency layer (init_scripts.sql): the trigger functions,  *)
(* the row-level-security policies and the transaction they run in.        *)
(*                                                                          *)
(* SQL values.  A nullable column is a tuple of length at most one:         *)
(* NULL is <<>> and the value v is <<v>>.  hierarchy_path is TEXT built by  *)
(* parent_path || '/' || desk_id; it is kept as the sequence of its         *)
(* '/'-separated segments, so || '/' || is Append.                          *)
(*                                                                          *)
(* The specifications share the variables:                                  *)
(*   SpecHier     statements on desks (hierarchy path maintainer)           *)
(*   SpecRLS      reads under the tenant binding app.current_org_id         *)
(*   SpecWrite    inserts and updates under the tenant binding              *)
(*   SpecBind     the binding across the transactions of a connection       *)
(*   SpecSess     transactions on agent_sessions (duration, cost recorder)  *)
(*   SpecRace     two connections completing the same running session       *)
(*   SpecStats    get_organization_stats among writes                       *)
(*   SpecRefresh  refresh_all_mv among writers and readers                  *)
(*   SpecTouch    updated_at of the mutable tables                          *)
(*   SpecStamp    updated_at under overlapping transactions                 *)
(*   SpecReparent concurrent re-parenting of desks                          *)
(*   SpecScoped   reads of the tables with and without a policy             *)
(*   SpecDerive   statements on desks that name the path and the level      *)
(*   SpecLedger   a session and its desk after the ledger entry is written  *)
(*   SpecTree     statements of two tenants on two desks                    *)
(*   SpecAttr     updates of a desk that leave its parent reference alone   *)
(***************************************************************************)
EXTENDS Integers, Sequences, FiniteSets, TLC

VARIABLES
    current_org_id,   \* the setting app.current_org_id of each connection
    desks,            \* table desks: id -> row
    tables,           \* the other tables that carry a policy: name -> rows
    sessions,         \* table agent_sessions, committed rows: id -> row
    cost_tracking,    \* table cost_tracking, committed rows in insertion order
    tx,               \* the open transaction of each connection
    lastTx,           \* how the last transaction of each connection ended
    nextXid,          \* the number of transactions begun
    lastOp,           \* the last statement: its input and its outcome (for a
                      \* SELECT, its binding and the rows it returned)
    mv_org_cost_summary,  \* materialized view: its stored rows
    mv_desk_performance,  \* materialized view: its stored rows
    refresh,          \* the refresh_all_mv() call in progress, if any
    updated_at,       \* updated_at of one row of each mutable table
    clock             \* NOW(): the start time of the current transaction

sessVars == <<sessions, cost_tracking, tx, lastTx, nextXid>>
auxVars == <<mv_org_cost_summary, mv_desk_performance, refresh, updated_at,
             clock>>

\* ------------------------------------------------------------------ values

NULL == <<>>
Some(v) == <<v>>
IsNull(x) == x = <<>>
Val(x) == x[1]

Orgs == {"orgA", "orgB"}
Conns == {"c1", "c2"}
SessionIds == {"s1"}
DeskIds == {"d1", "d2", "d3"}

RowIds == {"r1"}

\* bound on the materialized level a statement may produce (cycles grow paths)
MaxLevel == 3
\* bound on the rows stored in the tables that carry a policy
MaxRows == 3
\* bound on the transactions begun on the connections
MaxTxns == 3

\* app.current_org_id on the connection: never set (a fresh connection), set
\* to a tenant, or reset (a custom setting that was set and then reset reads
\* as the empty string)
Unset == "unset"
Empty == ""
Bindings == Orgs \cup {Unset, Empty}

\* current_setting('app.current_org_id', true): missing_ok makes it NULL when
\* the setting was never set
CurrentSetting(b) == IF b = Unset THEN NULL ELSE Some(b)

\* ...::UUID fails on a text that is no UUID (the empty string); NULL casts
\* to NULL
CastFails(b) == ~IsNull(CurrentSetting(b)) /\ Val(CurrentSetting(b)) \notin Orgs

\* ------------------------------------------------------------------ policies

\* Row security is enabled and enforced on the tables that carry a policy.
RowSecurityEnforced == TRUE

\* two filters the policies do not use: one that ignores the column once a
\* tenant is bound, one that lets every row through when none is bound
TenantMatchesAnyBound(value, b) ==
    IF IsNull(CurrentSetting(b)) \/ CastFails(b) THEN FALSE ELSE TRUE
TenantMatchesOrUnbound(value, b) ==
    IF IsNull(CurrentSetting(b)) THEN TRUE
    ELSE IF CastFails(b) THEN FALSE
    ELSE value = Val(CurrentSetting(b))

\* <column> = current_setting('app.current_org_id', true)::UUID as a row
\* filter: a NULL setting makes the comparison NULL, which filters the row
\* out; a failing cast fails the statement, which returns no row
TenantMatches(value, b) ==
    IF ~RowSecurityEnforced THEN TRUE
    ELSE IF IsNull(CurrentSetting(b)) \/ CastFails(b) THEN FALSE
    ELSE value = Val(CurrentSetting(b))

org_isolation_policy(row, b) == TenantMatches(row.id, b)
user_org_isolation(row, b) == TenantMatches(row.organization_id, b)
desk_org_isolation(row, b) == TenantMatches(row.organization_id, b)
task_org_isolation(row, b) == TenantMatches(row.organization_id, b)
workflow_org_isolation(row, b) == TenantMatches(row.organization_id, b)
kb_org_isolation(row, b) == TenantMatches(row.organization_id, b)
cost_org_isolation(row, b) == TenantMatches(row.organization_id, b)
audit_org_isolation(row, b) == TenantMatches(row.organization_id, b)
apikey_org_isolation(row, b) == TenantMatches(row.organization_id, b)

PolicyTables == {"organizations", "users", "desks", "tasks", "workflows",
                 "knowledge_bases", "cost_tracking", "audit_logs", "api_keys"}

\* the policy of table t applied to row under binding b
Policy(t, row, b) ==
    CASE t = "organizations"   -> org_isolation_policy(row, b)
      [] t = "users"           -> user_org_isolation(row, b)
      [] t = "desks"           -> desk_org_isolation(row, b)
      [] t = "tasks"           -> task_org_isolation(row, b)
      [] t = "workflows"       -> workflow_org_isolation(row, b)
      [] t = "knowledge_bases" -> kb_org_isolation(row, b)
      [] t = "cost_tracking"   -> cost_org_isolation(row, b)
      [] t = "audit_logs"      -> audit_org_isolation(row, b)
      [] t = "api_keys"        -> apikey_org_isolation(row, b)

\* policies that would be consulted for reads only
WithCheckNone(t, row, b) == TRUE

\* the check a written row must pass: the policies give USING only and no
\* command, so the USING expression is also the WITH CHECK of every INSERT
\* and UPDATE
WithCheck(t, row, b) == Policy(t, row, b)

\* the desks a statement running under binding b can see
VisibleDesks(b) ==
    LET ids == {i \in DOMAIN desks : desk_org_isolation(desks[i], b)}
    IN  [i \in ids |-> desks[i]]

\* the rows of table t as (table, id, tenant identifier); the tenant
\* identifier of an organizations row is its id
DeskRows == {[table |-> "desks", id |-> i,
              organization_id |-> desks[i].organization_id] : i \in DOMAIN desks}
TableRows(t) == IF t = "desks" THEN DeskRows ELSE tables[t]
StoredRows ==
    Cardinality(DOMAIN desks)
      + Cardinality(UNION {tables[t] : t \in PolicyTables \ {"desks"}})

\* ------------------------------------------------------------------ hierarchy

\* update_updated_at_column(): NEW.updated_at = NOW()
update_updated_at_column(new, now) == [new EXCEPT !.updated_at = now]

\* trigger_desks_updated_at: BEFORE UPDATE ON desks, in a statement whose
\* transaction began at clock
trigger_desks_updated_at(new) == update_updated_at_column(new, clock)

\* parent_path || '/' || NEW.desk_id  (NULL if parent_path is NULL)
PathConcat(parent_path, desk_id) ==
    IF IsNull(parent_path) THEN NULL ELSE Some(Append(Val(parent_path), desk_id))

\* NEW.hierarchy_level + 1  (NULL if the level is NULL)
LevelPlusOne(level) == IF IsNull(level) THEN NULL ELSE Some(Val(level) + 1)

\* update_desk_hierarchy_path(): BEFORE INSERT OR UPDATE OF reports_to_id.
\* visible is the desks table as the statement sees it (the row being
\* written still holds its old values, or is not there yet on INSERT).
\* SELECT ... INTO with no row found leaves both targets NULL.
update_desk_hierarchy_path(new, visible) ==
    IF IsNull(new.reports_to_id)
    THEN [new EXCEPT !.hierarchy_path = Some(<<new.desk_id>>),
                     !.hierarchy_level = Some(1)]
    ELSE LET p == Val(new.reports_to_id)
             found == p \in DOMAIN visible
             parent_path == IF found THEN visible[p].hierarchy_path ELSE NULL
             parent_level == IF found THEN visible[p].hierarchy_level ELSE NULL
         IN  [new EXCEPT !.hierarchy_path = PathConcat(parent_path, new.desk_id),
                         !.hierarchy_level = LevelPlusOne(parent_level)]

\* the ids on the reports_to chain above n (n itself if the chain loops)
RECURSIVE AncestorsUpTo(_, _, _)
AncestorsUpTo(tbl, n, k) ==
    IF k = 0 \/ n \notin DOMAIN tbl \/ IsNull(tbl[n].reports_to_id) THEN {}
    ELSE LET p == Val(tbl[n].reports_to_id)
         IN  {p} \cup AncestorsUpTo(tbl, p, k - 1)

Ancestors(tbl, n) == AncestorsUpTo(tbl, n, Cardinality(DeskIds))
Descendants(tbl, n) == {d \in DOMAIN tbl : n \in Ancestors(tbl, d)} \ {n}

LevelWithin(row) ==
    IF IsNull(row.hierarchy_level) THEN TRUE
    ELSE Val(row.hierarchy_level) <= MaxLevel

\* reports_to_id is NULL or names a row of ids
ParentIn(parent, ids) == IF IsNull(parent) THEN TRUE ELSE Val(parent) \in ids

\* a layout whose path and level columns accept NULL
PathLevelNullable == FALSE

\* Persisted layout: one non-null materialized path/level pair per node.
PathLevelNotNull == TRUE

\* what a write of row new to desks under binding b ends with: the policy is
\* checked against the new row after the BEFORE ROW trigger, then NOT NULL
DeskWriteOutcome(new, b) ==
    IF ~WithCheck("desks", new, b) THEN "policy_violation"
    ELSE IF PathLevelNotNull
            /\ (IsNull(new.hierarchy_path) \/ IsNull(new.hierarchy_level))
         THEN "not_null_violation"
    ELSE "ok"

\* VALUES (id, organization_id, desk_id, ..., llm_provider, llm_model,
\* reports_to_id): the columns an INSERT INTO desks gives
DeskValues(id, org, parent) ==
    [organization_id |-> org, desk_id |-> id, reports_to_id |-> parent,
     llm_provider |-> "anthropic", llm_model |-> "claude-sonnet-4",
     is_active |-> TRUE, deleted_at |-> NULL, updated_at |-> 0,
     hierarchy_path |-> NULL, hierarchy_level |-> NULL]

\* INSERT INTO desks (id, organization_id, desk_id, ..., reports_to_id)
\* The parent exists or is the row itself (the foreign key is checked after
\* the row is in).
InsertDesk(c, id, org, parent) ==
    /\ id \notin DOMAIN desks
    /\ StoredRows < MaxRows
    /\ ParentIn(parent, DOMAIN desks \cup {id})
    /\ LET raw == DeskValues(id, org, parent)
           new == update_desk_hierarchy_path(raw, VisibleDesks(current_org_id[c]))
           outcome == DeskWriteOutcome(new, current_org_id[c])
       IN  /\ LevelWithin(new)
           /\ desks' = IF outcome = "ok" THEN desks @@ (id :> new) ELSE desks
           /\ lastOp' = [kind |-> "insert_desk", id |-> id, parent |-> parent,
                         outcome |-> outcome,
                         cyclic |-> FALSE, hadDescendants |-> FALSE]
    /\ UNCHANGED <<auxVars, current_org_id, tables, sessVars>>

\* UPDATE desks SET reports_to_id = parent WHERE id = id
\* An invisible row is not updated (0 rows); the parent exists.
UpdateReportsTo(c, id, parent) ==
    /\ id \in DOMAIN desks
    /\ ParentIn(parent, DOMAIN desks)
    /\ LET seen == desk_org_isolation(desks[id], current_org_id[c])
           new == trigger_desks_updated_at(update_desk_hierarchy_path(
                      [desks[id] EXCEPT !.reports_to_id = parent],
                      VisibleDesks(current_org_id[c])))
           outcome == IF seen THEN DeskWriteOutcome(new, current_org_id[c])
                      ELSE "no_row"
       IN  /\ LevelWithin(new)
           /\ desks' = IF outcome = "ok" THEN [desks EXCEPT ![id] = new]
                       ELSE desks
           /\ lastOp' = [kind |-> "update_reports_to", id |-> id,
                         parent |-> parent,
                         outcome |-> outcome,
                         cyclic |-> /\ ~IsNull(parent)
                                    /\ Val(parent) \in {id} \cup Descendants(desks, id),
                         hadDescendants |-> Descendants(desks, id) # {}]
    /\ UNCHANGED <<auxVars, current_org_id, tables, sessVars>>

\* SET app.current_org_id = '<org>' on connection c
SetCurrentOrg(c, org) ==
    /\ current_org_id[c] # org
    /\ current_org_id' = [current_org_id EXCEPT ![c] = org]
    /\ lastOp' = [kind |-> "set_org", id |-> "none", parent |-> NULL,
                  outcome |-> "ok", cyclic |-> FALSE, hadDescendants |-> FALSE]
    /\ UNCHANGED <<auxVars, desks, tables, sessVars>>

\* RESET app.current_org_id on connection c: the setting reads as ''
ResetCurrentOrg(c) ==
    /\ current_org_id[c] \in Orgs
    /\ current_org_id' = [current_org_id EXCEPT ![c] = Empty]
    /\ lastOp' = [kind |-> "reset_org", id |-> "none", parent |-> NULL,
                  outcome |-> "ok", cyclic |-> FALSE, hadDescendants |-> FALSE]
    /\ UNCHANGED <<auxVars, desks, tables, sessVars>>

\* connection c is closed and opened again: the setting was never set
Reconnect(c) ==
    /\ current_org_id[c] # Unset
    /\ current_org_id' = [current_org_id EXCEPT ![c] = Unset]
    /\ lastOp' = [kind |-> "reconnect", id |-> "none", parent |-> NULL,
                  outcome |-> "ok", cyclic |-> FALSE, hadDescendants |-> FALSE]
    /\ UNCHANGED <<auxVars, desks, tables, sessVars>>

NoOp == [kind |-> "none", id |-> "none", parent |-> NULL, outcome |-> "ok",
         cyclic |-> FALSE, hadDescendants |-> FALSE]

vars == <<current_org_id, desks, tables, sessions, cost_tracking, tx, lastTx,
         nextXid, lastOp, mv_org_cost_summary, mv_desk_performance, refresh,
         updated_at, clock>>

ParentInputs == {NULL} \cup {Some(d) : d \in DeskIds}

\* set_before: the value app.current_org_id had before the transaction's
\* first SET, NULL if the transaction has issued no SET; now: NOW() in the
\* transaction, the time it began; stamps: the updated_at it has written
\* and not yet committed, by table; desk_writes: the rows of desks it has
\* written and not yet committed
IdleTx == [status |-> "idle", writes |-> <<>>, ledger |-> <<>>,
           attempted |-> {}, sawOpen |-> {}, overlapped |-> FALSE,
           set_before |-> NULL, now |-> 0, stamps |-> <<>>,
           desk_writes |-> <<>>]
NoTx == [result |-> "none", pendingLedger |-> 0, attempted |-> {},
         ledgered |-> {}, overlapped |-> FALSE]

\* the tables whose rows carry updated_at
MutableTables == {"organizations", "users", "desks", "tasks", "workflows",
                  "knowledge_bases", "data_sources", "agent_sessions"}

\* no refresh_all_mv() call is running.  pc: the statement of the function
\* to run next; cost, perf: the rows the call has computed for the two
\* views; runs: the calls completed; base, before: the query inputs and the
\* stored views when the call began; prev: base of the last completed call;
\* repeat: the last completed call found the inputs as they were when the
\* call before it began
IdleRefresh == [status |-> "idle", pc |-> 0, cost |-> NULL, perf |-> NULL,
                runs |-> 0, base |-> NULL, before |-> NULL, prev |-> NULL,
                repeat |-> FALSE]

\* the materialized views as CREATE MATERIALIZED VIEW populates them over
\* the empty tables; rows last written at time 0
InitAux ==
    /\ mv_org_cost_summary = {}
    /\ mv_desk_performance = {}
    /\ refresh = IdleRefresh
    /\ updated_at = [t \in MutableTables |-> 0]
    /\ clock = 0

InitSessVars ==
    /\ sessions = <<>>
    /\ cost_tracking = <<>>
    /\ tx = [c \in Conns |-> IdleTx]
    /\ lastTx = [c \in Conns |-> NoTx]
    /\ nextXid = 0

InitHier ==
    /\ current_org_id = [c \in Conns |-> Unset]
    /\ desks = <<>>
    /\ tables = [t \in PolicyTables \ {"desks"} |-> {}]
    /\ lastOp = NoOp
    /\ InitSessVars
    /\ InitAux

NextHier ==
    \/ \E o \in Orgs : SetCurrentOrg("c1", o)
    \/ \E id \in DeskIds, o \in Orgs, p \in ParentInputs :
          InsertDesk("c1", id, o, p)
    \/ \E id \in DeskIds, p \in ParentInputs : UpdateReportsTo("c1", id, p)

SpecHier == InitHier /\ [][NextHier]_vars

\* a trigger declared BEFORE INSERT OR UPDATE, for every column
HierarchyTriggerFiresAlways(cols) == TRUE

\* trigger_desk_hierarchy is BEFORE INSERT OR UPDATE OF reports_to_id: on an
\* UPDATE it fires only if reports_to_id is in the SET list (cols)
HierarchyTriggerFires(cols) == "reports_to_id" \in cols

\* the columns of the hierarchy a caller can name in a statement
HierarchyColumns == {"reports_to_id", "hierarchy_path", "hierarchy_level"}

\* a path and a level a caller supplies
SuppliedPath == <<"d3", "d1">>
SuppliedLevel == 3

\* INSERT INTO desks (..., reports_to_id, hierarchy_path, hierarchy_level)
\* with the caller's path and level: the trigger runs on every INSERT
InsertDeskSupplied(c, id, org, parent) ==
    /\ id \notin DOMAIN desks
    /\ StoredRows < MaxRows
    /\ ParentIn(parent, DOMAIN desks \cup {id})
    /\ LET raw == [DeskValues(id, org, parent) EXCEPT
                      !.hierarchy_path = Some(SuppliedPath),
                      !.hierarchy_level = Some(SuppliedLevel)]
           new == update_desk_hierarchy_path(raw, VisibleDesks(current_org_id[c]))
           outcome == DeskWriteOutcome(new, current_org_id[c])
       IN  /\ LevelWithin(new)
           /\ desks' = IF outcome = "ok" THEN desks @@ (id :> new) ELSE desks
           /\ lastOp' = [kind |-> "insert_desk_supplied", id |-> id,
                         parent |-> parent, outcome |-> outcome,
                         cols |-> HierarchyColumns]
    /\ UNCHANGED <<auxVars, current_org_id, tables, sessVars>>

\* UPDATE desks SET <cols> WHERE id = id, cols among reports_to_id = parent,
\* hierarchy_path = SuppliedPath, hierarchy_level = SuppliedLevel
SetDeskColumns(c, id, cols, parent) ==
    /\ id \in DOMAIN desks
    /\ cols \cap {"hierarchy_path", "hierarchy_level"} # {}
    /\ ParentIn(parent, DOMAIN desks)
    /\ LET seen == desk_org_isolation(desks[id], current_org_id[c])
           raw == [desks[id] EXCEPT
                     !.reports_to_id =
                         IF "reports_to_id" \in cols THEN parent ELSE @,
                     !.hierarchy_path =
                         IF "hierarchy_path" \in cols THEN Some(SuppliedPath)
                         ELSE @,
                     !.hierarchy_level =
                         IF "hierarchy_level" \in cols THEN Some(SuppliedLevel)
                         ELSE @]
           new == trigger_desks_updated_at(
                      IF HierarchyTriggerFires(cols)
                      THEN update_desk_hierarchy_path(raw,
                               VisibleDesks(current_org_id[c]))
                      ELSE raw)
           outcome == IF seen THEN DeskWriteOutcome(new, current_org_id[c])
                      ELSE "no_row"
       IN  /\ LevelWithin(new)
           /\ desks' = IF outcome = "ok" THEN [desks EXCEPT ![id] = new]
                       ELSE desks
           /\ lastOp' = [kind |-> "set_desk_columns", id |-> id,
                         parent |-> parent, outcome |-> outcome, cols |-> cols]
    /\ UNCHANGED <<auxVars, current_org_id, tables, sessVars>>

\* statements of a tenant on two desks that name the path and the level
NextDerive ==
    \/ SetCurrentOrg("c1", "orgA")
    \/ \E id \in {"d1", "d2"}, p \in {NULL, Some("d1")} :
          InsertDeskSupplied("c1", id, "orgA", p)
    \/ \E id \in {"d1", "d2"}, cols \in SUBSET HierarchyColumns,
          p \in {NULL, Some("d1")} :
          SetDeskColumns("c1", id, cols, p)

SpecDerive == InitHier /\ [][NextDerive]_vars

\* two desks and the parents a statement can give them
TreeDesks == {"d1", "d3"}
TreeParents == {NULL} \cup {Some(d) : d \in TreeDesks}

\* statements of the tenants on two desks: inserts, re-parenting, updates
\* that name the path
NextTree ==
    \/ \E o \in Orgs : SetCurrentOrg("c1", o)
    \/ \E id \in TreeDesks, o \in Orgs, p \in TreeParents :
          InsertDesk("c1", id, o, p)
    \/ \E id \in TreeDesks, p \in TreeParents : UpdateReportsTo("c1", id, p)
    \/ \E id \in TreeDesks : SetDeskColumns("c1", id, {"hierarchy_path"}, NULL)

SpecTree == InitHier /\ [][NextTree]_vars

\* ------------------------------------------------------------------ reads

\* INSERT INTO <t> (id, organization_id, ...): the policy of t is checked
\* against the new row; the organizations row of tenant org has id = org
InsertRow(c, t, id, org) ==
    /\ t \in PolicyTables \ {"desks"}
    /\ StoredRows < MaxRows
    /\ LET rid == IF t = "organizations" THEN org ELSE id
           row == [table |-> t, id |-> rid, organization_id |-> org]
           allowed == WithCheck(t, row, current_org_id[c])
       IN  /\ \A r \in tables[t] : r.id # rid
           /\ tables' = IF allowed THEN [tables EXCEPT ![t] = @ \cup {row}]
                         ELSE tables
           /\ lastOp' = [kind |-> "insert_row", id |-> rid, parent |-> NULL,
                         outcome |-> IF allowed THEN "ok" ELSE "policy_violation",
                         cyclic |-> FALSE, hadDescendants |-> FALSE]
    /\ UNCHANGED <<auxVars, current_org_id, desks, sessVars>>

\* UPDATE <t> SET organization_id = org WHERE id = id: the policy of t
\* filters the rows the statement finds and checks the row it writes
UpdateRowOrg(c, t, id, org) ==
    /\ t \in PolicyTables \ {"desks", "organizations"}
    /\ \E r \in tables[t] : r.id = id
    /\ LET old == CHOOSE r \in tables[t] : r.id = id
           new == [old EXCEPT !.organization_id = org]
           outcome == IF ~Policy(t, old, current_org_id[c]) THEN "no_row"
                      ELSE IF ~WithCheck(t, new, current_org_id[c])
                           THEN "policy_violation"
                      ELSE "ok"
       IN  /\ tables' = IF outcome = "ok"
                         THEN [tables EXCEPT ![t] = (@ \ {old}) \cup {new}]
                         ELSE tables
           /\ lastOp' = [kind |-> "update_row_org", id |-> id, parent |-> NULL,
                         outcome |-> outcome,
                         cyclic |-> FALSE, hadDescendants |-> FALSE]
    /\ UNCHANGED <<auxVars, current_org_id, desks, sessVars>>

\* UPDATE desks SET organization_id = org WHERE id = id (reports_to_id is
\* not assigned, so the hierarchy trigger does not fire)
UpdateDeskOrg(c, id, org) ==
    /\ id \in DOMAIN desks
    /\ LET new == trigger_desks_updated_at(
                      [desks[id] EXCEPT !.organization_id = org])
           outcome == IF ~desk_org_isolation(desks[id], current_org_id[c])
                      THEN "no_row"
                      ELSE DeskWriteOutcome(new, current_org_id[c])
       IN  /\ desks' = IF outcome = "ok" THEN [desks EXCEPT ![id] = new]
                       ELSE desks
           /\ lastOp' = [kind |-> "update_desk_org", id |-> id, parent |-> NULL,
                         outcome |-> outcome,
                         cyclic |-> FALSE, hadDescendants |-> FALSE]
    /\ UNCHANGED <<auxVars, current_org_id, tables, sessVars>>

\* writes of one connection under its binding
NextWrite ==
    \/ \E o \in Orgs : SetCurrentOrg("c1", o)
    \/ \E id \in DeskIds, o \in Orgs, p \in ParentInputs :
          InsertDesk("c1", id, o, p)
    \/ \E t \in PolicyTables \ {"desks"}, id \in RowIds, o \in Orgs :
          InsertRow("c1", t, id, o)
    \/ \E t \in PolicyTables, id \in RowIds, o \in Orgs :
          UpdateRowOrg("c1", t, id, o)
    \/ \E id \in DeskIds, o \in Orgs : UpdateDeskOrg("c1", id, o)

SpecWrite == InitHier /\ [][NextWrite]_vars

\* SELECT * FROM <t> on connection c: the rows the policy of t lets through
Select(t, b) == {r \in TableRows(t) : Policy(t, r, b)}

\* a statement that evaluates a policy under a setting that does not cast
\* to UUID fails
ReadOutcome(t, b) ==
    IF CastFails(b) /\ TableRows(t) # {} THEN "invalid_uuid" ELSE "ok"

ReadTable(c, t) ==
    /\ lastOp' = [kind |-> "select", table |-> t,
                  binding |-> current_org_id[c],
                  rows |-> Select(t, current_org_id[c]),
                  outcome |-> ReadOutcome(t, current_org_id[c])]
    /\ UNCHANGED <<auxVars, current_org_id, desks, tables, sessVars>>

\* SELECT d.*, p.* FROM desks d JOIN desks p ON p.id = d.reports_to_id:
\* the policy filters both sides; every row of a returned pair is returned
JoinParent(b) ==
    LET vis == VisibleDesks(b)
        pairs == {<<d, Val(vis[d].reports_to_id)>> :
                     d \in {x \in DOMAIN vis :
                               /\ ~IsNull(vis[x].reports_to_id)
                               /\ Val(vis[x].reports_to_id) \in DOMAIN vis}}
    IN  {r \in DeskRows : \E pr \in pairs : r.id = pr[1] \/ r.id = pr[2]}

ReadDesksWithParent(c) ==
    /\ lastOp' = [kind |-> "join_parent", table |-> "desks",
                  binding |-> current_org_id[c],
                  rows |-> JoinParent(current_org_id[c]),
                  outcome |-> ReadOutcome("desks", current_org_id[c])]
    /\ UNCHANGED <<auxVars, current_org_id, desks, tables, sessVars>>

NextRLS ==
    \/ \E o \in Orgs : SetCurrentOrg("c1", o)
    \/ ResetCurrentOrg("c1")
    \/ Reconnect("c1")
    \/ \E id \in DeskIds, o \in Orgs, p \in ParentInputs :
          InsertDesk("c1", id, o, p)
    \/ \E t \in PolicyTables \ {"desks"}, id \in RowIds, o \in Orgs :
          InsertRow("c1", t, id, o)
    \/ \E t \in PolicyTables : ReadTable("c1", t)
    \/ ReadDesksWithParent("c1")

SpecRLS == InitHier /\ [][NextRLS]_vars

\* the tenant-scoped tables for which the file creates no policy.  A row of
\* them is kept as (table, id, tenant identifier), the tenant being the one
\* the row belongs to through its references (a session's desk, a message's
\* session, ...).
UnpolicedTables == {"agent_sessions", "messages", "qa_reviews", "delegations",
                    "data_sources"}

\* the filter a read of table t applies to row under binding b: the policy
\* of t, and none where no policy is created (the triggers of this file
\* read and update agent_sessions rows on the caller's connection, so these
\* tables are not closed to it)
ReadFilter(t, row, b) == IF t \in PolicyTables THEN Policy(t, row, b) ELSE TRUE

\* INSERT INTO <t> ... for a table without a policy: nothing is checked
InsertUnpoliced(c, t, id, org) ==
    /\ t \in UnpolicedTables
    /\ Cardinality(UNION {tables[u] : u \in UnpolicedTables}) < MaxRows
    /\ \A r \in tables[t] : r.id # id
    /\ tables' = [tables EXCEPT ![t] = @ \cup
                     {[table |-> t, id |-> id, organization_id |-> org]}]
    /\ lastOp' = [kind |-> "insert_unpoliced", table |-> t, id |-> id,
                  outcome |-> "ok"]
    /\ UNCHANGED <<auxVars, current_org_id, desks, sessVars>>

\* SELECT * FROM <t> on connection c, t any tenant-scoped table
ReadScoped(c, t) ==
    /\ lastOp' = [kind |-> "select_scoped", table |-> t,
                  binding |-> current_org_id[c],
                  rows |-> {r \in TableRows(t) :
                              ReadFilter(t, r, current_org_id[c])},
                  outcome |-> IF t \in PolicyTables
                              THEN ReadOutcome(t, current_org_id[c]) ELSE "ok"]
    /\ UNCHANGED <<auxVars, current_org_id, desks, tables, sessVars>>

InitScoped ==
    /\ current_org_id = [c \in Conns |-> Unset]
    /\ desks = <<>>
    /\ tables = [t \in (PolicyTables \ {"desks"}) \cup UnpolicedTables |-> {}]
    /\ lastOp = NoOp
    /\ InitSessVars
    /\ InitAux

\* reads of every tenant-scoped table among writes of the tenants
NextScoped ==
    \/ \E o \in Orgs : SetCurrentOrg("c1", o)
    \/ \E id \in RowIds, o \in Orgs : InsertRow("c1", "tasks", id, o)
    \/ \E t \in UnpolicedTables, id \in RowIds, o \in Orgs :
          InsertUnpoliced("c1", t, id, o)
    \/ \E t \in PolicyTables \cup UnpolicedTables : ReadScoped("c1", t)

SpecScoped == InitScoped /\ [][NextScoped]_vars

\* ------------------------------------------------------------------ sessions

\* A timestamp is the number of seconds since 2026-01-01 00:00:00 in the
\* time zone of the connection.
DaysInMonth == <<31, 28, 31, 30, 31, 30, 31, 31, 30, 31, 30, 31>>

RECURSIVE MonthOfDay(_, _)
MonthOfDay(day, m) ==
    IF m = 12 \/ day < DaysInMonth[m] THEN m
    ELSE MonthOfDay(day - DaysInMonth[m], m + 1)

\* the billing month taken from NOW() instead of the given timestamp
ToCharYYYYMMOfNow(ts) == <<2026, MonthOfDay(clock \div 86400, 1)>>

\* TO_CHAR(ts, 'YYYY-MM'): the text is kept as <<year, month>>
ToCharYYYYMM(ts) == <<2026, MonthOfDay(ts \div 86400, 1)>>

\* calculate_session_duration(): BEFORE UPDATE ON agent_sessions
\* EXTRACT(EPOCH FROM (completed_at - started_at))::INTEGER
calculate_session_duration(new) ==
    IF ~IsNull(new.completed_at) /\ ~IsNull(new.started_at)
    THEN [new EXCEPT !.duration_seconds =
                         Some(Val(new.completed_at) - Val(new.started_at))]
    ELSE new

\* Persisted layout: one uniqueness constraint (session identifier) on the
\* ledger table.
LedgerSessionUnique == TRUE

\* the rows of ledger (a sequence of entries) that reference session id
LedgerOf(ledger, id) == {i \in 1..Len(ledger) : ledger[i].session_id = id}

\* a recorder that does not look at the old row
RecorderFiresOnAnyCompleted(old, new) == ~IsNull(new.completed_at)

\* the transition the recorder fires on:
\* NEW.completed_at IS NOT NULL AND OLD.completed_at IS NULL
RecorderFires(old, new) ==
    ~IsNull(new.completed_at) /\ IsNull(old.completed_at)

\* track_session_cost(): AFTER UPDATE ON agent_sessions, for the row id
\* changed from old to new on a connection bound to b that sees ledger.
\* Gives the statement's outcome and the rows inserted into cost_tracking.
\* Both SELECTs read desks through its policy; INSERT ... SELECT inserts
\* one row per desk found, none if the desk is not found.
track_session_cost(old, new, id, b, ledger) ==
    IF ~RecorderFires(old, new)
    THEN [outcome |-> "ok", rows |-> <<>>, resolved |-> TRUE]
    ELSE IF CastFails(b) /\ DOMAIN desks # {}
    THEN [outcome |-> "invalid_uuid", rows |-> <<>>, resolved |-> FALSE]
    ELSE
      LET visible == VisibleDesks(b)
          found == new.desk_id \in DOMAIN visible
          desk_org_id == IF found THEN Some(visible[new.desk_id].organization_id)
                         ELSE NULL
          current_month == ToCharYYYYMM(Val(new.completed_at))
          entry == [organization_id |-> Val(desk_org_id),
                    desk_id |-> new.desk_id,
                    session_id |-> id,
                    provider |-> visible[new.desk_id].llm_provider,
                    model |-> visible[new.desk_id].llm_model,
                    input_tokens |-> new.input_tokens,
                    output_tokens |-> new.output_tokens,
                    total_tokens |-> new.input_tokens + new.output_tokens,
                    total_cost |-> new.total_cost,
                    billing_month |-> current_month,
                    created_at |-> Val(new.completed_at)]
      IN  IF ~found
          THEN [outcome |-> "ok", rows |-> <<>>, resolved |-> FALSE]
          ELSE IF ~cost_org_isolation(entry, b)
          THEN [outcome |-> "policy_violation", rows |-> <<>>, resolved |-> TRUE]
          ELSE IF LedgerSessionUnique /\ LedgerOf(ledger, id) # {}
          THEN [outcome |-> "unique_violation", rows |-> <<>>, resolved |-> TRUE]
          ELSE [outcome |-> "ok", rows |-> <<entry>>, resolved |-> TRUE]

\* agent_sessions as connection c sees it: the committed rows and its own
\* uncommitted writes
View(c) ==
    [i \in DOMAIN sessions \cup DOMAIN tx[c].writes |->
        IF i \in DOMAIN tx[c].writes THEN tx[c].writes[i] ELSE sessions[i]]

\* a ledger whose entries follow the counters of their sessions
LedgerViewFollowingSession(c) ==
    LET l == cost_tracking \o tx[c].ledger
    IN  [i \in 1..Len(l) |->
            IF l[i].session_id \in DOMAIN View(c)
            THEN [l[i] EXCEPT !.total_cost = View(c)[l[i].session_id].total_cost]
            ELSE l[i]]

\* the ledger as connection c sees it
LedgerView(c) == cost_tracking \o tx[c].ledger

\* the row lock of session id is held by an open transaction other than c's
LockedByOther(c, id) ==
    \E o \in Conns \ {c} : tx[o].status = "active" /\ id \in DOMAIN tx[o].writes

\* a recorder that writes past the transaction, straight to the committed
\* ledger
LedgerWritesOutside(c, rows) ==
    [pending |-> tx[c].ledger, committed |-> cost_tracking \o rows]

\* where the rows an AFTER ROW trigger inserts go: with the statement's
\* other writes, in the transaction of c
LedgerWrites(c, rows) ==
    [pending |-> tx[c].ledger \o rows, committed |-> cost_tracking]

\* how the transaction of c is remembered when it ends with result
Ended(c, result) ==
    [result |-> result,
     pendingLedger |-> Len(tx[c].ledger),
     attempted |-> tx[c].attempted \cap tx[c].sawOpen,
     ledgered |-> IF result = "committed"
                  THEN {tx[c].ledger[i].session_id : i \in 1..Len(tx[c].ledger)}
                  ELSE {},
     overlapped |-> tx[c].overlapped]

\* BEGIN on connection c
Begin(c) ==
    /\ tx[c].status = "idle"
    /\ nextXid < MaxTxns
    /\ nextXid' = nextXid + 1
    /\ LET others == {o \in Conns \ {c} : tx[o].status = "active"}
       IN  tx' = [o \in Conns |->
                    IF o = c
                    THEN [IdleTx EXCEPT
                            !.status = "active",
                            !.sawOpen = {i \in DOMAIN sessions :
                                           IsNull(sessions[i].completed_at)},
                            !.overlapped = others # {}]
                    ELSE IF o \in others THEN [tx[o] EXCEPT !.overlapped = TRUE]
                    ELSE tx[o]]
    /\ lastOp' = [kind |-> "begin", conn |-> c, outcome |-> "ok"]
    /\ UNCHANGED <<auxVars, current_org_id, desks, tables, sessions, cost_tracking, lastTx>>

\* INSERT INTO agent_sessions (id, desk_id, started_at, completed_at) in the
\* transaction of c: no trigger fires on INSERT
InsertSession(c, id, desk, completed) ==
    /\ tx[c].status = "active"
    /\ id \notin DOMAIN View(c)
    /\ ~LockedByOther(c, id)
    /\ desk \in DOMAIN desks
    /\ LET row == [desk_id |-> desk, started_at |-> Some(0),
                   completed_at |-> completed, duration_seconds |-> NULL,
                   input_tokens |-> 0, output_tokens |-> 0, total_cost |-> 0]
       IN  tx' = [tx EXCEPT ![c].writes = @ @@ (id :> row)]
    /\ lastOp' = [kind |-> "insert_session", conn |-> c, id |-> id,
                  outcome |-> "ok"]
    /\ UNCHANGED <<auxVars, current_org_id, desks, tables, sessions, cost_tracking,
                   lastTx, nextXid>>

\* UPDATE agent_sessions SET completed_at = ..., input_tokens = ...,
\* output_tokens = ..., total_cost = ... WHERE id = id, in the transaction of
\* c: waits for the row lock, then the BEFORE trigger, the write, the AFTER
\* trigger.  A statement that fails aborts the transaction.
UpdateSession(c, id, completed, usage) ==
    /\ tx[c].status = "active"
    /\ id \in DOMAIN View(c)
    /\ ~LockedByOther(c, id)
    /\ LET old == View(c)[id]
           new == calculate_session_duration(
                      [old EXCEPT !.completed_at = completed,
                                  !.input_tokens = usage.input_tokens,
                                  !.output_tokens = usage.output_tokens,
                                  !.total_cost = usage.total_cost])
           rec == track_session_cost(old, new, id, current_org_id[c],
                                     LedgerView(c))
       IN  /\ IF rec.outcome = "ok"
              THEN /\ tx' = [tx EXCEPT
                               ![c].writes = [i \in DOMAIN @ \cup {id} |->
                                                IF i = id THEN new ELSE @[i]],
                               ![c].ledger = LedgerWrites(c, rec.rows).pending,
                               ![c].attempted =
                                   IF IsNull(completed) THEN @ ELSE @ \cup {id}]
                   /\ cost_tracking' = LedgerWrites(c, rec.rows).committed
                   /\ UNCHANGED lastTx
              ELSE /\ tx' = [tx EXCEPT ![c] = IdleTx]
                   /\ cost_tracking' = cost_tracking
                   /\ lastTx' = [lastTx EXCEPT ![c] =
                        [Ended(c, "rolledback") EXCEPT
                            !.attempted = @ \cup (IF IsNull(completed) THEN {}
                                                  ELSE {id} \cap tx[c].sawOpen)]]
           /\ lastOp' = [kind |-> "update_session", conn |-> c, id |-> id,
                         outcome |-> rec.outcome,
                         fired |-> RecorderFires(old, new),
                         oldCompleted |-> ~IsNull(old.completed_at),
                         newCompleted |-> ~IsNull(new.completed_at),
                         resolved |-> rec.resolved,
                         inserted |-> Len(rec.rows)]
    /\ UNCHANGED <<auxVars, current_org_id, desks, tables, sessions, nextXid>>

\* COMMIT on connection c: its writes and its ledger rows become the
\* committed ones in one step
Commit(c) ==
    /\ tx[c].status = "active"
    /\ sessions' = View(c)
    /\ cost_tracking' = LedgerView(c)
    /\ tx' = [tx EXCEPT ![c] = IdleTx]
    /\ lastTx' = [lastTx EXCEPT ![c] = Ended(c, "committed")]
    /\ lastOp' = [kind |-> "commit", conn |-> c, outcome |-> "ok"]
    /\ UNCHANGED <<auxVars, current_org_id, desks, tables, nextXid>>

\* ROLLBACK on connection c (the caller aborts, or its timeout cancels the
\* transaction): none of its writes is applied, a SET it issued is undone
Rollback(c) ==
    /\ tx[c].status = "active"
    /\ tx' = [tx EXCEPT ![c] = IdleTx]
    /\ current_org_id' = IF IsNull(tx[c].set_before) THEN current_org_id
                          ELSE [current_org_id EXCEPT ![c] = Val(tx[c].set_before)]
    /\ lastTx' = [lastTx EXCEPT ![c] = Ended(c, "rolledback")]
    /\ lastOp' = [kind |-> "rollback", conn |-> c, outcome |-> "ok"]
    /\ UNCHANGED <<auxVars, desks, tables, sessions, cost_tracking, nextXid>>

\* SET app.current_org_id between the transactions of connection c
BindTenant(c, org) == tx[c].status = "idle" /\ SetCurrentOrg(c, org)

\* SET app.current_org_id = '<org>' inside the transaction of c: a session
\* level SET, it outlives the transaction unless that is rolled back
BindInUnit(c, org) ==
    /\ tx[c].status = "active"
    /\ IsNull(tx[c].set_before) \/ current_org_id[c] # org
    /\ current_org_id' = [current_org_id EXCEPT ![c] = org]
    /\ tx' = [tx EXCEPT ![c].set_before =
                 IF IsNull(@) THEN Some(current_org_id[c]) ELSE @]
    /\ lastOp' = [kind |-> "set_org", conn |-> c, outcome |-> "ok"]
    /\ UNCHANGED <<auxVars, desks, tables, sessions, cost_tracking, lastTx,
                   nextXid>>

\* SELECT * FROM <t> inside the transaction of c
ReadInUnit(c, t) ==
    /\ tx[c].status = "active"
    /\ lastOp' = [kind |-> "unit_select", conn |-> c, table |-> t,
                  binding |-> current_org_id[c],
                  bound |-> ~IsNull(tx[c].set_before),
                  rows |-> Select(t, current_org_id[c]),
                  outcome |-> ReadOutcome(t, current_org_id[c])]
    /\ UNCHANGED <<auxVars, current_org_id, desks, tables, sessVars>>

CompletedInputs == {NULL, Some(60), Some(2678400)}
\* 100 input and 50 output tokens at a cost of 0.02 (in hundredths)
UsageDone == [input_tokens |-> 100, output_tokens |-> 50, total_cost |-> 2]
UsageInputs == {[input_tokens |-> 0, output_tokens |-> 0, total_cost |-> 0],
                UsageDone}

\* the seeded database: a tenant with a root desk and a desk reporting to it
SeedDesks ==
    LET root == update_desk_hierarchy_path(DeskValues("d1", "orgA", NULL), <<>>)
        t1 == ("d1" :> root)
        dev == update_desk_hierarchy_path(DeskValues("d2", "orgA", Some("d1")), t1)
    IN  t1 @@ ("d2" :> dev)

InitSess ==
    /\ current_org_id = [c \in Conns |-> Unset]
    /\ desks = SeedDesks
    /\ tables = [t \in PolicyTables \ {"desks"} |->
                   IF t \in {"organizations", "users", "workflows"}
                   THEN {[table |-> t, id |-> IF t = "organizations" THEN "orgA"
                                              ELSE "r1",
                          organization_id |-> "orgA"]}
                   ELSE {}]
    /\ lastOp = NoOp
    /\ InitSessVars
    /\ InitAux

\* the tenants of the seeded database
SeededOrgs == {"orgA"}

\* statements of one connection
NextSess ==
    \/ \E o \in SeededOrgs : BindTenant("c1", o)
    \/ Begin("c1")
    \/ \E id \in SessionIds, d \in DeskIds, done \in {NULL, Some(60)} :
          InsertSession("c1", id, d, done)
    \/ \E id \in SessionIds, done \in CompletedInputs, u \in UsageInputs :
          UpdateSession("c1", id, done, u)
    \/ Commit("c1")
    \/ Rollback("c1")

SpecSess == InitSess /\ [][NextSess]_vars

\* units of work of the connections, each binding its tenant or none
NextBind ==
    \/ \E c \in Conns : Begin(c)
    \/ \E c \in Conns, o \in Orgs : BindInUnit(c, o)
    \/ \E c \in Conns, t \in PolicyTables : ReadInUnit(c, t)
    \/ \E c \in Conns : Commit(c)
    \/ \E c \in Conns : Rollback(c)

SpecBind == InitSess /\ [][NextBind]_vars

\* ------------------------------------------------------------------ stats

TaskIds == {"t1", "t2"}
TaskStatuses == {"pending", "assigned", "in_review", "completed"}
LedgerSessions == {"s1", "s2"}
\* bound on the rows of cost_tracking written directly
MaxEntries == 2

\* the rows a LEFT JOIN contributes: NULL when nothing matches
LeftSide(matches) == IF matches = {} THEN {NULL} ELSE {Some(x) : x \in matches}

\* COUNT(x) over the joined rows: one per row
CountRows(joined, k, ids) ==
    Cardinality({r \in joined : IF IsNull(r[k]) THEN FALSE ELSE Val(r[k]) \in ids})

\* COUNT(DISTINCT CASE WHEN <x in ids> THEN x.id END) over the joined rows,
\* x the k-th relation of the join
CountDistinct(joined, k, ids) ==
    Cardinality({Val(r[k]) : r \in {x \in joined :
                     IF IsNull(x[k]) THEN FALSE ELSE Val(x[k]) \in ids}})

\* SUM(COALESCE(ct.total_cost, 0)) over the joined rows, ct the k-th
\* relation of the join, its rows numbered as in ledger
RECURSIVE SumTotalCost(_, _, _)
SumTotalCost(joined, k, ledger) ==
    IF joined = {} THEN 0
    ELSE LET r == CHOOSE x \in joined : TRUE
         IN  (IF IsNull(r[k]) THEN 0 ELSE ledger[Val(r[k])].total_cost)
               + SumTotalCost(joined \ {r}, k, ledger)

\* SUM(ct.total_cost) over the joined rows, ct the third relation
SumCost(joined) == SumTotalCost(joined, 3, cost_tracking)

\* get_organization_stats(org_id) called at time ts on a connection bound to
\* b: organizations LEFT JOIN desks LEFT JOIN tasks LEFT JOIN cost_tracking,
\* grouped by the organization; no row if the organization is not found
get_organization_stats(org_id, b, ts) ==
    LET o == {r \in Select("organizations", b) : r.id = org_id}
        d == {i \in DOMAIN VisibleDesks(b) :
                 desks[i].organization_id = org_id /\ IsNull(desks[i].deleted_at)}
        t == {r \in Select("tasks", b) : r.organization_id = org_id}
        ct == {i \in 1..Len(cost_tracking) :
                  /\ cost_org_isolation(cost_tracking[i], b)
                  /\ cost_tracking[i].organization_id = org_id
                  /\ cost_tracking[i].billing_month = ToCharYYYYMM(ts)}
        joined == LeftSide(d) \X LeftSide({r.id : r \in t}) \X LeftSide(ct)
        withStatus(st) == {r.id : r \in {x \in t : x.status \in st}}
    IN  IF o = {} THEN NULL
        ELSE Some(
          [total_desks |-> CountDistinct(joined, 1, d),
           active_desks |-> CountDistinct(joined, 1,
                                          {i \in d : desks[i].is_active}),
           total_tasks |-> CountDistinct(joined, 2, {r.id : r \in t}),
           active_tasks |-> CountDistinct(joined, 2,
                               withStatus({"in_progress", "assigned", "in_review"})),
           completed_tasks |-> CountDistinct(joined, 2, withStatus({"completed"})),
           total_cost_this_month |-> SumCost(joined)])

\* SELECT * FROM get_organization_stats(org) on connection c
GetOrganizationStats(c, org) ==
    /\ lastOp' = [kind |-> "stats", org |-> org, binding |-> current_org_id[c],
                  result |-> get_organization_stats(org, current_org_id[c], clock)]
    /\ UNCHANGED <<auxVars, current_org_id, desks, tables, sessVars>>

\* a refresh that would take a lock writers wait for
WriterWaitsForRefresh(r) == r.status = "running"

\* REFRESH MATERIALIZED VIEW CONCURRENTLY locks the materialized view, not
\* the tables its query reads: a writer to those does not wait for it
WriterWaits(r) == FALSE

\* INSERT INTO tasks (id, organization_id, status, assigned_to_id)
InsertTask(c, id, org, status, desk) ==
    /\ ~WriterWaits(refresh)
    /\ \A r \in tables["tasks"] : r.id # id
    /\ ParentIn(desk, DOMAIN desks)
    /\ LET row == [table |-> "tasks", id |-> id, organization_id |-> org,
                   status |-> status, assigned_to_id |-> desk]
           allowed == WithCheck("tasks", row, current_org_id[c])
       IN  /\ tables' = IF allowed THEN [tables EXCEPT !["tasks"] = @ \cup {row}]
                         ELSE tables
           /\ lastOp' = [kind |-> "insert_task", id |-> id,
                         outcome |-> IF allowed THEN "ok" ELSE "policy_violation"]
    /\ UNCHANGED <<auxVars, current_org_id, desks, sessVars>>

\* UPDATE desks SET is_active = false / SET deleted_at = NOW() WHERE id = id
ChangeDesk(c, id, active, deleted) ==
    /\ id \in DOMAIN VisibleDesks(current_org_id[c])
    /\ desks[id].is_active # active \/ IsNull(desks[id].deleted_at) = deleted
    /\ desks' = [desks EXCEPT ![id] = trigger_desks_updated_at(
                     [@ EXCEPT !.is_active = active,
                               !.deleted_at = IF deleted THEN Some(clock)
                                              ELSE NULL])]
    /\ lastOp' = [kind |-> "change_desk", id |-> id, outcome |-> "ok"]
    /\ UNCHANGED <<auxVars, current_org_id, tables, sessVars>>

\* INSERT INTO cost_tracking (organization_id, desk_id, session_id, ...,
\* total_cost, billing_month): an entry of cost 0.02 for a session of desk
InsertCost(c, org, desk, sid, ts) ==
    /\ ~WriterWaits(refresh)
    /\ Len(cost_tracking) < MaxEntries
    /\ desk \in DOMAIN desks
    /\ LedgerSessionUnique => LedgerOf(cost_tracking, sid) = {}
    /\ LET entry == [organization_id |-> org, desk_id |-> desk,
                     session_id |-> sid,
                     provider |-> desks[desk].llm_provider,
                     model |-> desks[desk].llm_model,
                     input_tokens |-> UsageDone.input_tokens,
                     output_tokens |-> UsageDone.output_tokens,
                     total_tokens |-> UsageDone.input_tokens
                                        + UsageDone.output_tokens,
                     total_cost |-> UsageDone.total_cost,
                     billing_month |-> ToCharYYYYMM(ts),
                     created_at |-> ts]
           allowed == WithCheck("cost_tracking", entry, current_org_id[c])
       IN  /\ cost_tracking' = IF allowed THEN Append(cost_tracking, entry)
                                ELSE cost_tracking
           /\ lastOp' = [kind |-> "insert_cost", id |-> sid,
                         outcome |-> IF allowed THEN "ok" ELSE "policy_violation"]
    /\ UNCHANGED <<auxVars, current_org_id, desks, tables, sessions, tx, lastTx,
                   nextXid>>

\* the point query among writes to the tables it reads
NextStats ==
    \/ \E o \in Orgs : SetCurrentOrg("c1", o)
    \/ \E id \in TaskIds, o \in Orgs, st \in TaskStatuses :
          InsertTask("c1", id, o, st, NULL)
    \/ \E id \in DeskIds, a \in BOOLEAN, del \in BOOLEAN :
          ChangeDesk("c1", id, a, del)
    \/ \E sid \in LedgerSessions, ts \in {60, 2678400} :
          InsertCost("c1", "orgA", "d1", sid, ts)
    \/ \E o \in Orgs : GetOrganizationStats("c1", o)

SpecStats == InitSess /\ [][NextStats]_vars

\* a session of desk d2 is started, completed and updated again, and the
\* desk is changed, in transactions of one connection
NextLedger ==
    \/ \E o \in SeededOrgs : BindTenant("c1", o)
    \/ Begin("c1")
    \/ \E id \in SessionIds : InsertSession("c1", id, "d2", NULL)
    \/ \E id \in SessionIds, done \in {NULL, Some(60)}, u \in UsageInputs :
          UpdateSession("c1", id, done, u)
    \/ \E a \in BOOLEAN, del \in BOOLEAN : ChangeDesk("c1", "d2", a, del)
    \/ Commit("c1")
    \/ Rollback("c1")

SpecLedger == InitSess /\ [][NextLedger]_vars

\* ------------------------------------------------------------------ refresh

\* bound on the refresh_all_mv() calls
MaxRefreshes == 2

\* SUM(<col>) over the rows idx of ledger
RECURSIVE SumCol(_, _, _)
SumCol(idx, ledger, col) ==
    IF idx = {} THEN 0
    ELSE LET i == CHOOSE x \in idx : TRUE
         IN  ledger[i][col] + SumCol(idx \ {i}, ledger, col)

\* the committed rows the two queries read
Inputs == [ledger |-> cost_tracking, tasks |-> tables["tasks"]]

\* a summary of the entries written since the call before began only
org_cost_summary_delta(ledger) ==
    LET from == IF IsNull(refresh.prev) THEN 0 ELSE Len(Val(refresh.prev).ledger)
        delta == SubSeq(ledger, from + 1, Len(ledger))
        groups == {<<delta[i].organization_id, delta[i].billing_month,
                     delta[i].provider>> : i \in 1..Len(delta)}
    IN  {[organization_id |-> g[1], billing_month |-> g[2], provider |-> g[3],
          transaction_count |-> 1, total_input_tokens |-> 0,
          total_output_tokens |-> 0, total_tokens |-> 0,
          total_cost |-> 0] : g \in groups}

\* the query of mv_org_cost_summary over the rows of cost_tracking
\* (avg_cost_per_request is total_cost / transaction_count)
org_cost_summary(ledger) ==
    LET groups == {<<ledger[i].organization_id, ledger[i].billing_month,
                     ledger[i].provider>> : i \in 1..Len(ledger)}
        rowsOf(g) == {i \in 1..Len(ledger) :
                        <<ledger[i].organization_id, ledger[i].billing_month,
                          ledger[i].provider>> = g}
    IN  {[organization_id |-> g[1], billing_month |-> g[2], provider |-> g[3],
          transaction_count |-> Cardinality(rowsOf(g)),
          total_input_tokens |-> SumCol(rowsOf(g), ledger, "input_tokens"),
          total_output_tokens |-> SumCol(rowsOf(g), ledger, "output_tokens"),
          total_tokens |-> SumCol(rowsOf(g), ledger, "total_tokens"),
          total_cost |-> SumCol(rowsOf(g), ledger, "total_cost")] : g \in groups}

\* the query of mv_desk_performance over the rows of desks, tasks and
\* cost_tracking: desks LEFT JOIN tasks LEFT JOIN cost_tracking, grouped by
\* desk
desk_performance(dsk, tsk, ledger) ==
    LET live == {i \in DOMAIN dsk : IsNull(dsk[i].deleted_at)}
        t(d) == {r \in tsk : r.assigned_to_id = Some(d)}
        ct(d) == {i \in 1..Len(ledger) : ledger[i].desk_id = d}
        joined(d) == LeftSide({r.id : r \in t(d)}) \X LeftSide(ct(d))
        withStatus(d, st) == {r.id : r \in {x \in t(d) : x.status \in st}}
    IN  {[organization_id |-> dsk[d].organization_id, desk_id |-> d,
          total_tasks |-> CountDistinct(joined(d), 1, {r.id : r \in t(d)}),
          completed_tasks |->
              CountDistinct(joined(d), 1, withStatus(d, {"completed"})),
          active_tasks |->
              CountDistinct(joined(d), 1,
                            withStatus(d, {"in_progress", "assigned"})),
          total_cost |-> SumTotalCost(joined(d), 2, ledger)] : d \in live}

\* a refresh that would replace the stored rows statement by statement
RefreshWritesInPlace(stored, rows) == [pending |-> Some(rows), stored |-> rows]

\* REFRESH MATERIALIZED VIEW CONCURRENTLY inside the function's transaction:
\* the new rows are not visible to others until the transaction commits
RefreshWrites(stored, rows) == [pending |-> Some(rows), stored |-> stored]

\* SELECT refresh_all_mv() is called (a second call waits for the first
\* one's lock on the view)
RefreshBegin ==
    /\ refresh.status = "idle"
    /\ refresh.runs < MaxRefreshes
    /\ refresh' = [refresh EXCEPT !.status = "running", !.pc = 1,
                                  !.base = Some(Inputs),
                                  !.before = Some(<<mv_org_cost_summary,
                                                    mv_desk_performance>>)]
    /\ lastOp' = [kind |-> "refresh_begin", outcome |-> "ok"]
    /\ UNCHANGED <<current_org_id, desks, tables, sessVars,
                   mv_org_cost_summary, mv_desk_performance, updated_at, clock>>

\* REFRESH MATERIALIZED VIEW CONCURRENTLY mv_org_cost_summary
RefreshCostSummary ==
    /\ refresh.status = "running" /\ refresh.pc = 1
    /\ LET w == RefreshWrites(mv_org_cost_summary,
                              org_cost_summary(cost_tracking))
       IN  /\ refresh' = [refresh EXCEPT !.pc = 2, !.cost = w.pending]
           /\ mv_org_cost_summary' = w.stored
    /\ lastOp' = [kind |-> "refresh_cost_summary", outcome |-> "ok"]
    /\ UNCHANGED <<current_org_id, desks, tables, sessVars,
                   mv_desk_performance, updated_at, clock>>

\* REFRESH MATERIALIZED VIEW CONCURRENTLY mv_desk_performance
RefreshDeskPerformance ==
    /\ refresh.status = "running" /\ refresh.pc = 2
    /\ LET w == RefreshWrites(mv_desk_performance,
                              desk_performance(desks, tables["tasks"],
                                               cost_tracking))
       IN  /\ refresh' = [refresh EXCEPT !.pc = 3, !.perf = w.pending]
           /\ mv_desk_performance' = w.stored
    /\ lastOp' = [kind |-> "refresh_desk_performance", outcome |-> "ok"]
    /\ UNCHANGED <<current_org_id, desks, tables, sessVars,
                   mv_org_cost_summary, updated_at, clock>>

\* the function returns and its transaction commits: both views get their
\* new rows
RefreshCommit ==
    /\ refresh.status = "running" /\ refresh.pc = 3
    /\ mv_org_cost_summary' = Val(refresh.cost)
    /\ mv_desk_performance' = Val(refresh.perf)
    /\ refresh' = [IdleRefresh EXCEPT !.runs = refresh.runs + 1,
                                      !.prev = refresh.base,
                                      !.repeat = (refresh.prev = Some(Inputs))]
    /\ lastOp' = [kind |-> "refresh_commit", outcome |-> "ok"]
    /\ UNCHANGED <<current_org_id, desks, tables, sessVars, updated_at, clock>>

\* SELECT * FROM mv_org_cost_summary; SELECT * FROM mv_desk_performance
ReadSnapshots(c) ==
    /\ lastOp' = [kind |-> "read_mv", conn |-> c, outcome |-> "ok",
                  rows |-> <<mv_org_cost_summary, mv_desk_performance>>]
    /\ UNCHANGED <<auxVars, current_org_id, desks, tables, sessVars>>

\* refreshes among writers and readers
NextRefresh ==
    \/ \E o \in SeededOrgs : BindTenant("c1", o)
    \/ \E id \in TaskIds, st \in {"assigned", "completed"} :
          InsertTask("c1", id, "orgA", st, Some("d1"))
    \/ \E sid \in LedgerSessions : InsertCost("c1", "orgA", "d1", sid, 60)
    \/ RefreshBegin
    \/ RefreshCostSummary
    \/ RefreshDeskPerformance
    \/ RefreshCommit
    \/ ReadSnapshots("c2")

SpecRefresh == InitSess /\ [][NextRefresh]_vars

\* ------------------------------------------------------------------ updated_at

\* bound on NOW(), counted in transactions begun
MaxClock == 3

\* the tables with a BEFORE UPDATE trigger that runs it
UpdatedAtTriggers == {"organizations", "users", "desks", "tasks", "workflows",
                      "knowledge_bases", "data_sources"}

\* the updated_at values a caller may put in its SET list: none, a time in
\* the past, a time in the future
SuppliedInputs == {NULL, Some(0), Some(MaxClock + 1)}

\* UPDATE <t> SET ..., [updated_at = supplied] WHERE id = ..., in a
\* transaction of its own that begins at the next clock value
UpdateRow(t, supplied) ==
    /\ clock < MaxClock
    /\ clock' = clock + 1
    /\ LET now == clock + 1
           new == [updated_at |-> IF IsNull(supplied) THEN updated_at[t]
                                  ELSE Val(supplied)]
           row == IF t \in UpdatedAtTriggers
                  THEN update_updated_at_column(new, now) ELSE new
       IN  /\ updated_at' = [updated_at EXCEPT ![t] = row.updated_at]
           /\ lastOp' = [kind |-> "update_row", table |-> t, now |-> now,
                         supplied |-> supplied, outcome |-> "ok"]
    /\ UNCHANGED <<current_org_id, desks, tables, sessVars,
                   mv_org_cost_summary, mv_desk_performance, refresh>>

NextTouch == \E t \in MutableTables, v \in SuppliedInputs : UpdateRow(t, v)

SpecTouch == InitHier /\ [][NextTouch]_vars

\* BEGIN on connection c at the next clock value: NOW() stays at this value
\* until the transaction ends
StampBegin(c) ==
    /\ tx[c].status = "idle"
    /\ clock < MaxClock
    /\ clock' = clock + 1
    /\ tx' = [tx EXCEPT ![c] = [IdleTx EXCEPT !.status = "active",
                                              !.now = clock + 1]]
    /\ lastOp' = [kind |-> "begin", conn |-> c, outcome |-> "ok"]
    /\ UNCHANGED <<current_org_id, desks, tables, sessions, cost_tracking,
                   lastTx, nextXid, mv_org_cost_summary, mv_desk_performance,
                   refresh, updated_at>>

\* the row of t is locked by an open transaction other than c's
StampLockedByOther(c, t) ==
    \E o \in Conns \ {c} : tx[o].status = "active" /\ t \in DOMAIN tx[o].stamps

\* UPDATE <t> SET ... WHERE id = ... (updated_at not in the SET list) in the
\* transaction of c: waits for the row lock, then updates the latest
\* committed row (READ COMMITTED); the BEFORE UPDATE trigger, where the
\* table has one, stamps the transaction's NOW()
StampUpdate(c, t) ==
    /\ tx[c].status = "active"
    /\ ~StampLockedByOther(c, t)
    /\ LET old == [updated_at |-> IF t \in DOMAIN tx[c].stamps
                                  THEN tx[c].stamps[t] ELSE updated_at[t]]
           row == IF t \in UpdatedAtTriggers
                  THEN update_updated_at_column(old, tx[c].now) ELSE old
       IN  tx' = [tx EXCEPT ![c].stamps =
                     [x \in DOMAIN @ \cup {t} |->
                         IF x = t THEN row.updated_at ELSE @[x]]]
    /\ lastOp' = [kind |-> "stamp_update", conn |-> c, table |-> t,
                  outcome |-> "ok"]
    /\ UNCHANGED <<auxVars, current_org_id, desks, tables, sessions,
                   cost_tracking, lastTx, nextXid>>

\* COMMIT on connection c: the rows it updated become the committed ones
StampCommit(c) ==
    /\ tx[c].status = "active"
    /\ updated_at' = [t \in MutableTables |->
                         IF t \in DOMAIN tx[c].stamps THEN tx[c].stamps[t]
                         ELSE updated_at[t]]
    /\ tx' = [tx EXCEPT ![c] = IdleTx]
    /\ lastOp' = [kind |-> "stamp_commit", conn |-> c, outcome |-> "ok",
                  tables |-> DOMAIN tx[c].stamps, now |-> tx[c].now]
    /\ UNCHANGED <<current_org_id, desks, tables, sessions, cost_tracking,
                   lastTx, nextXid, mv_org_cost_summary, mv_desk_performance,
                   refresh, clock>>

\* a table with the trigger and the one without
StampedTables == {"desks", "agent_sessions"}

\* overlapping transactions of the connections that update rows
NextStamp ==
    \/ \E c \in Conns : StampBegin(c)
    \/ \E c \in Conns, t \in StampedTables : StampUpdate(c, t)
    \/ \E c \in Conns : StampCommit(c)
    \/ \E c \in Conns : Rollback(c)

SpecStamp == InitHier /\ [][NextStamp]_vars

\* ------------------------------------------------------------------ concurrent re-parenting

\* desks as the transaction of c sees it: the committed rows and its own
\* uncommitted writes
DeskView(c) ==
    [i \in DOMAIN desks |->
        IF i \in DOMAIN tx[c].desk_writes THEN tx[c].desk_writes[i] ELSE desks[i]]

\* the rows of DeskView(c) the policy lets a statement of c see
VisibleDeskView(c) ==
    LET view == DeskView(c)
        ids == {i \in DOMAIN view : desk_org_isolation(view[i], current_org_id[c])}
    IN  [i \in ids |-> view[i]]

\* the row lock of desk id is held by an open transaction other than c's.
\* The trigger's SELECT of the parent row takes no lock.
DeskLockedByOther(c, id) ==
    \E o \in Conns \ {c} :
        tx[o].status = "active" /\ id \in DOMAIN tx[o].desk_writes

\* UPDATE desks SET reports_to_id = parent WHERE id = id in the transaction
\* of c, for a move that is sound when it runs alone: in the view of c the
\* node has no descendants and the new parent is another node
ReparentInUnit(c, id, parent) ==
    /\ tx[c].status = "active"
    /\ id \in DOMAIN desks
    /\ ~DeskLockedByOther(c, id)
    /\ ParentIn(parent, DOMAIN desks \ {id})
    /\ Descendants(DeskView(c), id) = {}
    /\ LET old == DeskView(c)[id]
           seen == desk_org_isolation(old, current_org_id[c])
           new == trigger_desks_updated_at(update_desk_hierarchy_path(
                      [old EXCEPT !.reports_to_id = parent], VisibleDeskView(c)))
           outcome == IF seen THEN DeskWriteOutcome(new, current_org_id[c])
                      ELSE "no_row"
       IN  /\ LevelWithin(new)
           /\ outcome \in {"ok", "no_row"}
           /\ tx' = IF outcome = "ok"
                    THEN [tx EXCEPT ![c].desk_writes =
                            [i \in DOMAIN @ \cup {id} |->
                                IF i = id THEN new ELSE @[i]]]
                    ELSE tx
           /\ lastOp' = [kind |-> "reparent", conn |-> c, id |-> id,
                         parent |-> parent, outcome |-> outcome]
    /\ UNCHANGED <<auxVars, current_org_id, desks, tables, sessions,
                   cost_tracking, lastTx, nextXid>>

\* COMMIT on connection c: the rows of desks it wrote become the committed
\* ones
ReparentCommit(c) ==
    /\ tx[c].status = "active"
    /\ desks' = DeskView(c)
    /\ tx' = [tx EXCEPT ![c] = IdleTx]
    /\ lastTx' = [lastTx EXCEPT ![c] = Ended(c, "committed")]
    /\ lastOp' = [kind |-> "reparent_commit", conn |-> c, outcome |-> "ok",
                  moved |-> DOMAIN tx[c].desk_writes,
                  overlapped |-> tx[c].overlapped]
    /\ UNCHANGED <<auxVars, current_org_id, tables, sessions, cost_tracking,
                   nextXid>>

\* the seeded desks and a second root desk of the tenant
ThreeDesks ==
    SeedDesks
      @@ ("d3" :> update_desk_hierarchy_path(DeskValues("d3", "orgA", NULL), <<>>))

InitReparent ==
    /\ current_org_id = [c \in Conns |-> Unset]
    /\ desks = ThreeDesks
    /\ tables = [t \in PolicyTables \ {"desks"} |->
                   IF t = "organizations"
                   THEN {[table |-> t, id |-> "orgA", organization_id |-> "orgA"]}
                   ELSE {}]
    /\ lastOp = NoOp
    /\ InitSessVars
    /\ InitAux

\* the connections re-parent desks, each in a transaction of its own,
\* concurrently
NextReparent ==
    \/ \E c \in Conns, o \in SeededOrgs : BindTenant(c, o)
    \/ \E c \in Conns : Begin(c)
    \/ \E c \in Conns, id \in DeskIds, p \in ParentInputs :
          ReparentInUnit(c, id, p)
    \/ \E c \in Conns : ReparentCommit(c)
    \/ \E c \in Conns : Rollback(c)

SpecReparent == InitReparent /\ [][NextReparent]_vars

\* the columns of a desk an update that leaves the hierarchy alone names
AttributeColumns == {"title", "is_active"}

\* UPDATE desks SET <cols> WHERE id = id, cols among title = ... and
\* is_active = active, in a transaction of its own that begins at the next
\* clock value: the BEFORE UPDATE triggers of desks run on the row
UpdateDeskAttrs(c, id, cols, active) ==
    /\ id \in DOMAIN desks
    /\ cols # {} /\ cols \subseteq AttributeColumns
    /\ clock < MaxClock
    /\ clock' = clock + 1
    /\ LET seen == desk_org_isolation(desks[id], current_org_id[c])
           raw == [desks[id] EXCEPT
                     !.is_active = IF "is_active" \in cols THEN active ELSE @]
           new == update_updated_at_column(
                      IF HierarchyTriggerFires(cols)
                      THEN update_desk_hierarchy_path(raw,
                               VisibleDesks(current_org_id[c]))
                      ELSE raw,
                      clock + 1)
           outcome == IF seen THEN DeskWriteOutcome(new, current_org_id[c])
                      ELSE "no_row"
       IN  /\ LevelWithin(new)
           /\ desks' = IF outcome = "ok" THEN [desks EXCEPT ![id] = new]
                       ELSE desks
           /\ lastOp' = [kind |-> "update_desk_attrs", id |-> id,
                         cols |-> cols, active |-> active, now |-> clock + 1,
                         outcome |-> outcome]
    /\ UNCHANGED <<current_org_id, tables, sessVars, mv_org_cost_summary,
                   mv_desk_performance, refresh, updated_at>>

\* desk d1 is moved under d3 and back while the other columns of d1 and of
\* its child d2 are updated
NextAttr ==
    \/ \E o \in SeededOrgs : SetCurrentOrg("c1", o)
    \/ \E p \in {NULL, Some("d3")} : UpdateReportsTo("c1", "d1", p)
    \/ \E id \in {"d1", "d2"}, cols \in SUBSET AttributeColumns, a \in BOOLEAN :
          UpdateDeskAttrs("c1", id, cols, a)

SpecAttr == InitReparent /\ [][NextAttr]_vars

\* the seeded database with a running session: INSERT INTO agent_sessions
\* (id, desk_id, started_at) committed, completed_at unset
RunningSession ==
    [desk_id |-> "d2", started_at |-> Some(0), completed_at |-> NULL,
     duration_seconds |-> NULL, input_tokens |-> 0, output_tokens |-> 0,
     total_cost |-> 0]

InitRace ==
    /\ current_org_id = [c \in Conns |-> Unset]
    /\ desks = SeedDesks
    /\ tables = [t \in PolicyTables \ {"desks"} |->
                   IF t \in {"organizations", "users", "workflows"}
                   THEN {[table |-> t, id |-> IF t = "organizations" THEN "orgA"
                                              ELSE "r1",
                          organization_id |-> "orgA"]}
                   ELSE {}]
    /\ lastOp = NoOp
    /\ sessions = [id \in SessionIds |-> RunningSession]
    /\ cost_tracking = <<>>
    /\ tx = [c \in Conns |-> IdleTx]
    /\ lastTx = [c \in Conns |-> NoTx]
    /\ nextXid = 0
    /\ InitAux

\* the connections complete the running session, each in a transaction of
\* its own, concurrently
NextRace ==
    \/ \E c \in Conns, o \in SeededOrgs : BindTenant(c, o)
    \/ \E c \in Conns : Begin(c)
    \/ \E c \in Conns, id \in SessionIds, done \in CompletedInputs \ {NULL} :
          UpdateSession(c, id, done, UsageDone)
    \/ \E c \in Conns : Commit(c)
    \/ \E c \in Conns : Rollback(c)

SpecRace == InitRace /\ [][NextRace]_vars

\* ------------------------------------------------------------------ claims: ledger

\* C2: in every reachable state, for every session, a ledger entry that
\* references it exists if and only if its completed_at is set, and at most
\* one ledger entry references it.
C2_LedgerIffCompleted ==
    \A id \in DOMAIN sessions :
        /\ (LedgerOf(cost_tracking, id) # {})
              <=> ~IsNull(sessions[id].completed_at)
        /\ Cardinality(LedgerOf(cost_tracking, id)) <= 1

\* C13: in every reachable state, for every session, duration_seconds is
\* defined if and only if started_at and completed_at are both set, and
\* when defined it equals completed_at - started_at in seconds.
C13_DurationDerived ==
    \A id \in DOMAIN sessions :
        LET row == sessions[id]
            both == ~IsNull(row.started_at) /\ ~IsNull(row.completed_at)
        IN  IF IsNull(row.duration_seconds) THEN ~both
            ELSE IF ~both THEN FALSE
            ELSE Val(row.duration_seconds)
                   = Val(row.completed_at) - Val(row.started_at)

\* the first second of month m of 2026 (m = 13: of the next year)
RECURSIVE MonthStart(_)
MonthStart(m) ==
    IF m = 1 THEN 0 ELSE MonthStart(m - 1) + DaysInMonth[m - 1] * 86400

Contenders(id) ==
    {c \in Conns : /\ tx[c].status = "idle"
                   /\ lastTx[c].result # "none"
                   /\ lastTx[c].overlapped
                   /\ id \in lastTx[c].attempted}

\* C6: when two or more concurrent transactions have tried to complete the
\* same uncompleted session, at most one of them committed the completion
\* together with a ledger entry, and if any of them committed, exactly one
\* ledger entry references the session.
C6_OneCompletionWins ==
    \A id \in SessionIds :
        LET done == {c \in Contenders(id) : lastTx[c].result = "committed"}
            winners == {c \in done : id \in lastTx[c].ledgered}
        IN  Cardinality(Contenders(id)) >= 2
              => /\ Cardinality(winners) <= 1
                 /\ done # {} => Cardinality(LedgerOf(cost_tracking, id)) = 1

\* C7: a ledger entry is inserted only by an update whose old row has
\* completed_at unset and whose new row has it set, one entry per such
\* update; an update of an already-completed session inserts none and
\* leaves the ledger as it was.
C7_RecorderFiresOnTransition ==
    [][\A c \in Conns :
         /\ Len(tx'[c].ledger) > Len(tx[c].ledger)
              => /\ lastOp'.kind = "update_session"
                 /\ lastOp'.conn = c
                 /\ ~lastOp'.oldCompleted /\ lastOp'.newCompleted
                 /\ Len(tx'[c].ledger) = Len(tx[c].ledger) + 1
         /\ (lastOp'.kind = "update_session" /\ lastOp'.conn = c
               /\ lastOp'.oldCompleted /\ lastOp'.outcome = "ok")
              => /\ tx'[c].ledger = tx[c].ledger
                 /\ cost_tracking' = cost_tracking]_vars

\* an already-completed session that has its ledger entry was updated again
C7_Witness ==
    /\ lastOp.kind = "update_session"
    /\ lastOp.oldCompleted /\ lastOp.newCompleted
    /\ lastOp.outcome = "ok"
    /\ Cardinality(LedgerOf(LedgerView(lastOp.conn), lastOp.id)) = 1

\* C8: a completion update that fires the recorder while the session's desk
\* cannot be resolved fails with DanglingNodeReference and is rolled back.
C8_DanglingNodeRejected ==
    [][(lastOp'.kind = "update_session" /\ lastOp'.fired /\ ~lastOp'.resolved)
         => /\ lastOp'.outcome = "DanglingNodeReference"
            /\ tx'[lastOp'.conn].status = "idle"
            /\ sessions' = sessions
            /\ cost_tracking' = cost_tracking]_vars

EntriesOfPeriod(org, ts) ==
    {i \in 1..Len(cost_tracking) :
        /\ cost_tracking[i].organization_id = org
        /\ \E m \in 1..12 : /\ cost_tracking[i].billing_month = <<2026, m>>
                             /\ MonthStart(m) <= ts /\ ts < MonthStart(m + 1)}

RECURSIVE SumOfEntries(_)
SumOfEntries(idx) ==
    IF idx = {} THEN 0
    ELSE LET i == CHOOSE x \in idx : TRUE
         IN  cost_tracking[i].total_cost + SumOfEntries(idx \ {i})

\* C15: the organization summary of tenant T gives as cost of the current
\* billing period the sum of total_cost over T's ledger entries of the
\* current month, however many nodes and work items T has.
C15_CostThisBillingPeriod ==
    (lastOp.kind = "stats" /\ ~IsNull(lastOp.result))
      => Val(lastOp.result).total_cost_this_month
           = SumOfEntries(EntriesOfPeriod(lastOp.org, clock))

\* C16: the organization summary of tenant T counts T's nodes that are not
\* soft-deleted, those of them that are active, T's work items, those with
\* status in_progress, assigned or in_review, and those with status
\* completed, each once, and no row of another tenant.
C16_CountsEachEntityOnce ==
    (lastOp.kind = "stats" /\ ~IsNull(lastOp.result))
      => LET org == lastOp.org
             res == Val(lastOp.result)
             nodes == {i \in DOMAIN desks : /\ desks[i].organization_id = org
                                            /\ IsNull(desks[i].deleted_at)}
             items == {r \in tables["tasks"] : r.organization_id = org}
         IN  /\ res.total_desks = Cardinality(nodes)
             /\ res.active_desks
                  = Cardinality({i \in nodes : desks[i].is_active})
             /\ res.total_tasks = Cardinality(items)
             /\ res.active_tasks
                  = Cardinality({r \in items :
                       r.status \in {"in_progress", "assigned", "in_review"}})
             /\ res.completed_tasks
                  = Cardinality({r \in items : r.status = "completed"})

\* the summary of a tenant with two nodes, one of them inactive, two ledger
\* entries of the current month and a completed work item, while another
\* tenant has a work item too
C16_Witness ==
    /\ lastOp.kind = "stats" /\ ~IsNull(lastOp.result)
    /\ Val(lastOp.result).total_desks = 2
    /\ Val(lastOp.result).active_desks = 1
    /\ Val(lastOp.result).total_tasks = 1
    /\ Val(lastOp.result).completed_tasks = 1
    /\ Cardinality(EntriesOfPeriod(lastOp.org, clock)) = 2
    /\ \E r \in tables["tasks"] : r.organization_id # lastOp.org

\* ------------------------------------------------------------------ claims: refresh

C18_SnapshotSwappedWhole ==
    [][/\ (refresh.status = "running" /\ refresh'.status = "running")
           => /\ mv_org_cost_summary' = mv_org_cost_summary
              /\ mv_desk_performance' = mv_desk_performance
       /\ lastOp'.kind = "refresh_commit"
           => /\ mv_org_cost_summary' = Val(refresh.cost)
              /\ mv_desk_performance' = Val(refresh.perf)
       /\ lastOp'.kind = "read_mv"
           => /\ lastOp'.rows = <<mv_org_cost_summary, mv_desk_performance>>
              /\ refresh.status = "running"
                   => lastOp'.rows = Val(refresh.before)]_vars

\* a read while the refresh has computed new rows for both views that
\* differ from the stored ones
C18_Witness ==
    /\ lastOp.kind = "read_mv"
    /\ refresh.status = "running" /\ refresh.pc = 3
    /\ Val(refresh.cost) # mv_org_cost_summary
    /\ Val(refresh.perf) # mv_desk_performance
    /\ lastOp.rows = Val(refresh.before)

C26_LedgerEntryImmutable ==
    [][/\ Len(cost_tracking') >= Len(cost_tracking)
       /\ \A i \in 1..Len(cost_tracking) : cost_tracking'[i] = cost_tracking[i]]_vars

\* a completed session with a committed entry has been updated again and
\* committed with counters that differ from the entry's, its completed_at
\* cleared, and its desk deactivated
C26_Witness ==
    /\ lastOp.kind = "commit"
    /\ LedgerOf(cost_tracking, "s1") # {}
    /\ \A i \in LedgerOf(cost_tracking, "s1") :
          cost_tracking[i].total_cost # sessions["s1"].total_cost
    /\ IsNull(sessions["s1"].completed_at)
    /\ ~desks["d2"].is_active

\* the rollup of the ledger by (tenant, billing period, provider), each
\* entry counted once
OrgRollup(ledger) ==
    LET key(i) == <<ledger[i].organization_id, ledger[i].billing_month,
                    ledger[i].provider>>
        of(g) == {i \in 1..Len(ledger) : key(i) = g}
    IN  {[organization_id |-> g[1], billing_month |-> g[2], provider |-> g[3],
          transaction_count |-> Cardinality(of(g)),
          total_input_tokens |-> SumCol(of(g), ledger, "input_tokens"),
          total_output_tokens |-> SumCol(of(g), ledger, "output_tokens"),
          total_tokens |-> SumCol(of(g), ledger, "total_tokens"),
          total_cost |-> SumCol(of(g), ledger, "total_cost")] :
            g \in {key(i) : i \in 1..Len(ledger)}}

\* the rollup by node: the work items assigned to it, each counted once,
\* and the cost of its ledger entries, each counted once
DeskRollup(dsk, tsk, ledger) ==
    LET of(d, st) == {r \in tsk : r.assigned_to_id = Some(d) /\ r.status \in st}
    IN  {[organization_id |-> dsk[d].organization_id, desk_id |-> d,
          total_tasks |-> Cardinality(of(d, TaskStatuses)),
          completed_tasks |-> Cardinality(of(d, {"completed"})),
          active_tasks |-> Cardinality(of(d, {"in_progress", "assigned"})),
          total_cost |-> SumCol({i \in 1..Len(ledger) : ledger[i].desk_id = d},
                                ledger, "total_cost")] :
            d \in {i \in DOMAIN dsk : IsNull(dsk[i].deleted_at)}}

\* C25: the snapshots a refresh produces equal a recomputation from the
\* live tables (as they were at an instant of the refresh): per (tenant,
\* billing period, provider) the count of ledger entries and the sums of
\* their tokens and cost; per non-deleted node the number of distinct work
\* items assigned to it (total, completed, active) and the sum of the costs
\* of its ledger entries, whatever the number of its work items.
C25_SnapshotsEqualRecomputation ==
    [][lastOp'.kind = "refresh_commit"
         => LET b == Val(refresh.base)
                prefixes == {SubSeq(cost_tracking, 1, n) :
                                n \in Len(b.ledger)..Len(cost_tracking)}
                tasksets == {X \in SUBSET tables["tasks"] : b.tasks \subseteq X}
            IN  /\ \E l \in prefixes : mv_org_cost_summary' = OrgRollup(l)
                /\ \E l \in prefixes, X \in tasksets :
                      mv_desk_performance' = DeskRollup(desks, X, l)]_vars

\* C30: after one refresh_all_mv() call that runs beside writers of the
\* ledger the two snapshots describe the same instant of the ledger: there
\* is one state of the ledger, between the call's start and its end, from
\* which both mv_org_cost_summary and mv_desk_performance were computed.
C30_SnapshotsOfOneInstant ==
    [][lastOp'.kind = "refresh_commit"
         => LET b == Val(refresh.base)
                prefixes == {SubSeq(cost_tracking, 1, n) :
                                n \in Len(b.ledger)..Len(cost_tracking)}
                tasksets == {X \in SUBSET tables["tasks"] : b.tasks \subseteq X}
            IN  \E l \in prefixes :
                  /\ mv_org_cost_summary' = org_cost_summary(l)
                  /\ \E X \in tasksets :
                        mv_desk_performance' = desk_performance(desks, X, l)]_vars

\* ------------------------------------------------------------------ claims: updated_at

\* C20: every successful update of a row of a mutable table (organizations,
\* users, desks, tasks, workflows, knowledge_bases, data_sources,
\* agent_sessions) leaves the row's updated_at equal to the time of the
\* transaction, whatever updated_at the caller supplied, and does not fail.
C20_UpdatedAtMaintained ==
    [][lastOp'.kind = "update_row"
         => /\ lastOp'.outcome = "ok"
            /\ updated_at'[lastOp'.table] = lastOp'.now]_vars

\* C21: for every row, the updated_at values left by successive committed
\* updates never decrease, also when the updates come from overlapping
\* transactions that commit in another order than they began.
C21_UpdatedAtNeverDecreases ==
    [][\A t \in MutableTables : updated_at'[t] >= updated_at[t]]_vars

\* ------------------------------------------------------------------ claims: binding

\* C12: a read in a unit of work that has bound no tenant runs under no
\* tenant's binding (it does not inherit the binding of an earlier unit of
\* work on the connection), and a read in a unit that has bound a tenant
\* runs under a tenant's binding.
C12_BindingPerUnitOfWork ==
    lastOp.kind = "unit_select"
      => /\ ~lastOp.bound => lastOp.binding \notin Orgs
         /\ lastOp.bound => lastOp.binding \in Orgs

\* ------------------------------------------------------------------ claims: writes

\* a statement of c1 that writes a row with tenant identifier o
WritesTenant(o) ==
    \/ \E id \in DeskIds, p \in ParentInputs : InsertDesk("c1", id, o, p)
    \/ \E t \in PolicyTables \ {"desks"}, id \in RowIds :
          InsertRow("c1", t, id, o)
    \/ \E t \in PolicyTables, id \in RowIds :
          /\ UpdateRowOrg("c1", t, id, o)
          /\ \E r \in tables[t] :
                r.id = id /\ r.organization_id = current_org_id["c1"]
    \/ \E id \in DeskIds :
          /\ UpdateDeskOrg("c1", id, o)
          /\ desks[id].organization_id = current_org_id["c1"]

IsRead(op) == op.kind \in {"select", "join_parent"}

\* C3: a read executed while tenant A is bound returns no row whose tenant
\* identifier differs from A, for each of the nine tables that carry a
\* policy and for the join of desks with their parents.
C3_ReadIsolated ==
    (IsRead(lastOp) /\ lastOp.binding \in Orgs)
        => \A r \in lastOp.rows : r.organization_id = lastOp.binding

\* a join through the parent reference returned rows of the bound tenant
\* while a desk of another tenant is stored
C3_Witness ==
    /\ lastOp.kind = "join_parent"
    /\ lastOp.binding \in Orgs
    /\ lastOp.rows # {}
    /\ \E i \in DOMAIN desks : desks[i].organization_id # lastOp.binding

\* C23: a read of any table that holds tenant-scoped rows (the nine with a
\* policy and agent_sessions, messages, qa_reviews, delegations,
\* data_sources) executed while a tenant is bound returns no row of another
\* tenant.
C23_EveryScopedTableFiltered ==
    (lastOp.kind = "select_scoped" /\ lastOp.binding \in Orgs)
        => \A r \in lastOp.rows : r.organization_id = lastOp.binding

Derived(tbl, n) ==
    LET r == tbl[n]
    IN  /\ ~IsNull(r.hierarchy_path)
        /\ ~IsNull(r.hierarchy_level)
        /\ Val(r.hierarchy_level) = Len(Val(r.hierarchy_path))
        /\ IF IsNull(r.reports_to_id)
           THEN Val(r.hierarchy_path) = <<r.desk_id>> /\ Val(r.hierarchy_level) = 1
           ELSE LET p == Val(r.reports_to_id)
                IN  /\ p \in DOMAIN tbl
                    /\ ~IsNull(tbl[p].hierarchy_path)
                    /\ Val(r.hierarchy_path) =
                         Append(Val(tbl[p].hierarchy_path), r.desk_id)

Acyclic(tbl) == \A n \in DOMAIN tbl : n \notin Ancestors(tbl, n)

\* path and level agree with the parent references and no chain loops
Consistent(tbl) == Acyclic(tbl) /\ \A n \in DOMAIN tbl : Derived(tbl, n)

\* C22: concurrent re-parenting transactions never both commit leaving a
\* path or level that disagrees with the committed parent references, or a
\* cycle: a commit that would do so does not happen (the transaction aborts
\* with ConcurrentModification), so every commit leaves a consistent
\* hierarchy consistent.
C22_ConcurrentReparentConsistent ==
    [][(lastOp'.kind = "reparent_commit" /\ Consistent(desks))
          => Consistent(desks')]_vars

\* C24: a path or level a caller supplies in an INSERT is overwritten by
\* the derived value, and an UPDATE that sets the path or the level (with or
\* without the parent reference) never leaves the row with a path or level
\* other than the derived one.
C24_PathLevelOnlyDerived ==
    [][(/\ lastOp'.kind \in {"insert_desk_supplied", "set_desk_columns"}
        /\ lastOp'.outcome = "ok")
          => Derived(desks', lastOp'.id)]_vars

\* C27: in every reachable state every hierarchy node has a non-null path
\* and a non-null level; an insert whose parent reference names the row
\* itself, or a parent row the trigger cannot read, stores no row.
C27_PathLevelNeverNull ==
    /\ \A n \in DOMAIN desks : /\ ~IsNull(desks[n].hierarchy_path)
                                /\ ~IsNull(desks[n].hierarchy_level)
    /\ (lastOp.kind = "insert_desk" /\ lastOp.parent = Some(lastOp.id))
          => lastOp.id \notin DOMAIN desks

\* a desk that reports to itself was inserted, beside stored desks, and
\* refused for its NULL path
C27_Witness ==
    /\ lastOp.kind = "insert_desk"
    /\ lastOp.parent = Some(lastOp.id)
    /\ lastOp.outcome = "not_null_violation"
    /\ desks # <<>>

\* C28: in every reachable state a node's parent, when present, is a node
\* of the same tenant, and no path holds identifiers of nodes of two
\* tenants: every stored node a path names is of the tenant of the path's
\* node.
C28_ParentOfSameTenant ==
    \A n \in DOMAIN desks :
       /\ ~IsNull(desks[n].reports_to_id)
            => /\ Val(desks[n].reports_to_id) \in DOMAIN desks
               /\ desks[Val(desks[n].reports_to_id)].organization_id
                     = desks[n].organization_id
       /\ ~IsNull(desks[n].hierarchy_path)
            => \A k \in 1..Len(Val(desks[n].hierarchy_path)) :
                  Val(desks[n].hierarchy_path)[k] \in DOMAIN desks
                    => desks[Val(desks[n].hierarchy_path)[k]].organization_id
                         = desks[n].organization_id

\* C29: an update of a node that does not name its parent reference (its
\* title, its active flag) leaves the path and the level of the node and
\* every other row as they were; of the node's columns only those in the
\* SET list and updated_at, set to the time of the transaction, change.
C29_AttributeUpdateKeepsPath ==
    [][lastOp'.kind = "update_desk_attrs"
         => LET id == lastOp'.id
            IN  /\ \A n \in DOMAIN desks \ {id} : desks'[n] = desks[n]
                /\ desks'[id].hierarchy_path = desks[id].hierarchy_path
                /\ desks'[id].hierarchy_level = desks[id].hierarchy_level
                /\ desks'[id].reports_to_id = desks[id].reports_to_id
                /\ lastOp'.outcome = "ok"
                     => desks'[id] =
                          [desks[id] EXCEPT
                             !.is_active = IF "is_active" \in lastOp'.cols
                                           THEN lastOp'.active ELSE @,
                             !.updated_at = lastOp'.now]]_vars

\* the active flag of a node whose stored path is not the one its parent's
\* path gives now was updated, and updated_at advanced
C29_Witness ==
    /\ lastOp.kind = "update_desk_attrs"
    /\ lastOp.outcome = "ok"
    /\ "is_active" \in lastOp.cols
    /\ ~IsNull(desks[lastOp.id].reports_to_id)
    /\ ~Derived(desks, lastOp.id)
    /\ desks[lastOp.id].updated_at = lastOp.now
    /\ lastOp.now > 0

\* C1: in every reachable state every hierarchy node has level = length(path),
\* and path = parent's path + [self], or path = [self] and level = 1 for a root.
C1_PathLevelDerived == \A n \in DOMAIN desks : Derived(desks, n)

\* C4: an update of a node's parent reference to the node itself or to one of
\* its descendants is rejected with CycleDetected and changes no row, and the
\* parent relation is acyclic in every reachable state.
C4_CycleRejected ==
    [][/\ (lastOp'.kind = "update_reports_to" /\ lastOp'.cyclic)
            => (lastOp'.outcome = "CycleDetected" /\ desks' = desks)
       /\ Acyclic(desks')]_vars

\* C5: when the parent reference of a node that has descendants is changed
\* (to a node that is not one of them: those are C4's), either the update is
\* rejected with UnsupportedReparent and nothing changes, or afterwards the
\* path and level of every descendant are the derived ones.
C5_DescendantsRecomputed ==
    [][(/\ lastOp'.kind = "update_reports_to"
        /\ lastOp'.hadDescendants
        /\ ~lastOp'.cyclic
        /\ lastOp'.id \in DOMAIN desks
        /\ lastOp'.parent # desks[lastOp'.id].reports_to_id)
       => \/ lastOp'.outcome = "UnsupportedReparent" /\ desks' = desks
          \/ \A d \in Descendants(desks', lastOp'.id) : Derived(desks', d)]_vars

====
